---- MODULE Spec2Model ----
(***************************************************************************)
(* Model of src/lib/sdm/maven.ts: the Maven SDM configuration (push rules  *)
(* no_goals / build / run), the build goal with its MvnVersion project     *)
(* listener, the goal action mavenSpringBootRun and readDockerHost.        *)
(* The rule resolver, the goal executor, the port scan and the URL parser  *)
(* are library code the file calls; they are modelled from their contract. *)
(***************************************************************************)
EXTENDS Integers, Sequences, FiniteSets, TLC

VARIABLES
    received,     \* [Pushes -> BOOLEAN]   the push event has arrived
    snapshot,     \* [Pushes -> SUBSET Files]  file names of the push
    resolved,     \* [Pushes -> [rules: Seq(rule name), locked: BOOLEAN]]
    goalState,    \* [Pushes -> [Goals -> state]]
    pc,           \* [Pushes -> [Goals -> position inside the goal's action]]
    port,         \* [Pushes -> {} or {p}]  const port of mavenSpringBootRun
    bindOk,       \* [Pushes -> {} or {BOOLEAN}]  outcome of the app's bind
    procOutcome,  \* [Pushes -> "none" | "spawn_error" | "nonzero" | "zero"]
    notified,     \* [Pushes -> Nat]  completed addressChannels sends
    result,       \* [Pushes -> [Goals -> {} or {value the action returned}]]
    escaped,      \* [Pushes -> [Goals -> {} or {error the action rejected with}]]
    progressLog,  \* [Pushes -> Seq of log entries]
    events,       \* [Pushes -> Seq of "version" | "build" | "run"]
    extBusy,      \* ports bound by processes outside the SDM
    dockerEnv,    \* {} (unset) or {value} of process.env.DOCKER_HOST
    dockerResult  \* {} or {outcome of the last readDockerHost() call}

sdmVars == <<received, snapshot, resolved, goalState, pc, port, bindOk, procOutcome, notified, result, escaped,
             progressLog, events, extBusy>>
dockerVars == <<dockerEnv, dockerResult>>
vars == <<sdmVars, dockerVars>>

-----------------------------------------------------------------------------
(* Bounds of the model *)

NumPushes == 2
NumCand == 1
MaxLen == 4

Pushes == 1..NumPushes

-----------------------------------------------------------------------------
(* Program constants *)

PortLow == 8000
PortHigh == 8100

MarkerFile == "pom.xml"
Files == {"pom.xml", "README.md"}
\* the snapshots a push is drawn from
Snapshots == {{}, {"README.md"}, {"pom.xml", "README.md"}}
Goals == {"build", "run"}

FailPrefix == "Container run command failed"
NotSetMessage == "DOCKER_HOST environment variable not set"

-----------------------------------------------------------------------------
(* PredicateEvaluator: hasFile / not / the default test of a rule *)

hasFile(name, snap) == name \in snap

evaluate(test, snap) ==
    CASE test.op = "any" -> TRUE
      [] test.op = "hasFile" -> hasFile(test.file, snap)
      [] test.op = "notHasFile" -> ~hasFile(test.file, snap)

-----------------------------------------------------------------------------
(* The push rules returned by configure(), in declaration order *)

\* variant: no_goals without .andLock()
PushRulesNoLock ==
    << [name |-> "no_goals", test |-> [op |-> "notHasFile", file |-> MarkerFile],
        goals |-> <<>>, lock |-> FALSE, dependsOn |-> {}],
       [name |-> "build", test |-> [op |-> "any", file |-> ""],
        goals |-> <<"build">>, lock |-> FALSE, dependsOn |-> {}],
       [name |-> "run", test |-> [op |-> "any", file |-> ""],
        goals |-> <<"run">>, lock |-> FALSE, dependsOn |-> {"build"}] >>

\* variant: run without dependsOn: "build"
PushRulesNoDependsOn ==
    << [name |-> "no_goals", test |-> [op |-> "notHasFile", file |-> MarkerFile],
        goals |-> <<>>, lock |-> TRUE, dependsOn |-> {}],
       [name |-> "build", test |-> [op |-> "any", file |-> ""],
        goals |-> <<"build">>, lock |-> FALSE, dependsOn |-> {}],
       [name |-> "run", test |-> [op |-> "any", file |-> ""],
        goals |-> <<"run">>, lock |-> FALSE, dependsOn |-> {}] >>

\* lines 153-169
PushRules ==
    << [name |-> "no_goals", test |-> [op |-> "notHasFile", file |-> MarkerFile],
        goals |-> <<>>, lock |-> TRUE, dependsOn |-> {}],
       [name |-> "build", test |-> [op |-> "any", file |-> ""],
        goals |-> <<"build">>, lock |-> FALSE, dependsOn |-> {}],
       [name |-> "run", test |-> [op |-> "any", file |-> ""],
        goals |-> <<"run">>, lock |-> FALSE, dependsOn |-> {"build"}] >>

RuleIdx == 1..Len(PushRules)

RuleNamed(n) == PushRules[CHOOSE i \in RuleIdx : PushRules[i].name = n]

-----------------------------------------------------------------------------
(* GoalSetResolver: resolve(rules, push) *)

Matched(snap) == {i \in RuleIdx : evaluate(PushRules[i].test, snap)}

LockedMatches(snap) == {i \in Matched(snap) : PushRules[i].lock}

MinOf(S) == CHOOSE x \in S : \A y \in S : x <= y

RECURSIVE Kept(_, _)
\* matched rules whose dependencies are (transitively) kept
Kept(snap, n) ==
    IF n = 0 THEN Matched(snap)
    ELSE LET prev == Kept(snap, n - 1)
         IN {i \in prev :
               \A d \in PushRules[i].dependsOn :
                  \E j \in prev : PushRules[j].name = d}

RECURSIVE InOrder(_, _)
\* the rule names of index set S from index i on, in declaration order
InOrder(S, i) ==
    IF i > Len(PushRules) THEN <<>>
    ELSE (IF i \in S THEN <<PushRules[i].name>> ELSE <<>>) \o InOrder(S, i + 1)

resolve(snap) ==
    IF LockedMatches(snap) # {}
    THEN [rules |-> <<PushRules[MinOf(LockedMatches(snap))].name>>, locked |-> TRUE]
    ELSE [rules |-> InOrder(Kept(snap, Len(PushRules)), 1), locked |-> FALSE]

Unresolved == [rules |-> <<>>, locked |-> FALSE]

-----------------------------------------------------------------------------
(* PortAllocator: scanFreePort(low, high) over the ports bound right now *)

scanFreePort(low, high, busy) ==
    LET free == {q \in low..high : q \notin busy}
    IN IF free = {} THEN {} ELSE {MinOf(free)}

\* ports bound by the applications the run goals started
AppPorts == UNION {port[p] : p \in {q \in Pushes : pc[q]["run"] = "running"}}

Busy == extBusy \cup AppPorts

\* variant: the scan called with a range shifted by one
AllocatePortShifted == scanFreePort(PortLow + 1, PortHigh + 1, Busy)

\* line 120: const port = await scanFreePort(8000, 8100)
AllocatePort == scanFreePort(PortLow, PortHigh, Busy)

-----------------------------------------------------------------------------
(* Values of the goal action mavenSpringBootRun *)

\* line 121: const appUrl = `http://localhost:${port}`
appUrl(p) == [scheme |-> "http", host |-> "localhost", port |-> p]

\* lines 136-141: the value returned after the notification was sent
SuccessReturn(p) ==
    [state |-> {"success"}, code |-> {},
     externalUrls |-> << [label |-> "http", url |-> appUrl(p)] >>]

\* variant: the catch block returning code 0
CatchReturnZero == [state |-> {}, code |-> {0}, externalUrls |-> <<>>]

\* lines 145-147: the value returned by the catch block
CatchReturn == [state |-> {}, code |-> {1}, externalUrls |-> <<>>]

\* line 144: progressLog.write(`Container run command failed: %s`, e.message)
LogEntry(msg) == [prefix |-> FailPrefix, message |-> msg]

\* e.message of the error execPromise rejects with
ErrorMessageOf(outcome) ==
    IF outcome = "spawn_error" THEN "spawn mvn ENOENT" ELSE "exited with code 1"

\* outcome of the builder of the build goal (mavenBuilder)
BuildReturn(ok) ==
    [state |-> {}, code |-> IF ok THEN {0} ELSE {1}, externalUrls |-> <<>>]

The(S) == CHOOSE x \in S : TRUE

-----------------------------------------------------------------------------
(* GoalExecutor / GoalStateReporter *)

\* the state a finished goal action is reported with
GoalStateOf(res, esc) ==
    IF esc # {} THEN "failure"
    ELSE IF The(res).state = {"success"} THEN "success"
    ELSE IF The(res).code \subseteq {0} THEN "success"
    ELSE "failure"

GoalSetOf(ruleName) ==
    {RuleNamed(ruleName).goals[i] : i \in 1..Len(RuleNamed(ruleName).goals)}

GoalSetSucceeded(p, ruleName) ==
    \A g \in GoalSetOf(ruleName) : goalState[p][g] = "success"

InProcess(p) == {g \in Goals : goalState[p][g] = "in_process"}

InResolved(p, ruleName) ==
    \E i \in 1..Len(resolved[p].rules) : resolved[p].rules[i] = ruleName

RuleOfGoal(g) == CHOOSE i \in RuleIdx : g \in GoalSetOf(PushRules[i].name)

\* a rule's goal set begins only once every rule it depends on has succeeded
DependenciesMet(p, ruleName) ==
    \A d \in RuleNamed(ruleName).dependsOn : GoalSetSucceeded(p, d)

\* goals of one goal set run strictly one after the other
MayStart(p, g) ==
    /\ goalState[p][g] = "requested"
    /\ \A h \in GoalSetOf(PushRules[RuleOfGoal(g)].name) :
          goalState[p][h] # "in_process"

\* variant: a failed goal is requested again
NextGoalStateRetry(p, g) ==
    IF GoalStateOf(result[p][g], escaped[p][g]) = "failure" THEN "requested"
    ELSE "success"

\* the state a finished goal moves to; there is no retry
NextGoalState(p, g) == GoalStateOf(result[p][g], escaped[p][g])

-----------------------------------------------------------------------------
Init ==
    /\ received = [p \in Pushes |-> FALSE]
    /\ snapshot = [p \in Pushes |-> {}]
    /\ resolved = [p \in Pushes |-> Unresolved]
    /\ goalState = [p \in Pushes |-> [g \in Goals |-> "none"]]
    /\ pc = [p \in Pushes |-> [g \in Goals |-> "idle"]]
    /\ port = [p \in Pushes |-> {}]
    /\ bindOk = [p \in Pushes |-> {}]
    /\ procOutcome = [p \in Pushes |-> "none"]
    /\ notified = [p \in Pushes |-> 0]
    /\ result = [p \in Pushes |-> [g \in Goals |-> {}]]
    /\ escaped = [p \in Pushes |-> [g \in Goals |-> {}]]
    /\ progressLog = [p \in Pushes |-> <<>>]
    /\ events = [p \in Pushes |-> <<>>]
    /\ extBusy \in {{}, PortLow..PortHigh}
    /\ dockerEnv = {}
    /\ dockerResult = {}

\* a push arrives and its rules are resolved
Receive(p, snap) ==
    /\ ~received[p]
    /\ received' = [received EXCEPT ![p] = TRUE]
    /\ snapshot' = [snapshot EXCEPT ![p] = snap]
    /\ resolved' = [resolved EXCEPT ![p] = resolve(snap)]
    /\ UNCHANGED <<goalState, pc, port, bindOk, procOutcome,
                   notified, result, escaped, progressLog, events,
                   extBusy, dockerVars>>

\* the goals of a resolved rule are requested, in the resolved order, once
\* the goal sets the rule depends on have all succeeded
Schedule(p, i) ==
    /\ received[p]
    /\ i \in 1..Len(resolved[p].rules)
    /\ LET ruleName == resolved[p].rules[i]
       IN /\ GoalSetOf(ruleName) # {}
          /\ \A g \in GoalSetOf(ruleName) : goalState[p][g] = "none"
          /\ DependenciesMet(p, ruleName)
          /\ \A j \in 1..(i - 1) :
                \A g \in GoalSetOf(resolved[p].rules[j]) : goalState[p][g] # "none"
          /\ goalState' = [goalState EXCEPT ![p] =
                [g \in Goals |->
                    IF g \in GoalSetOf(ruleName) THEN "requested" ELSE @[g]]]
    /\ UNCHANGED <<received, snapshot, resolved, pc, port, bindOk,
                   procOutcome, notified, result, escaped,
                   progressLog, events, extBusy, dockerVars>>

\* requested -> in_process, before the action is invoked
StartGoal(p, g) ==
    /\ MayStart(p, g)
    /\ pc[p][g] = "idle"
    /\ goalState' = [goalState EXCEPT ![p][g] = "in_process"]
    /\ pc' = [pc EXCEPT ![p][g] = "start"]
    /\ UNCHANGED <<received, snapshot, resolved, port, bindOk,
                   procOutcome, notified, result, escaped,
                   progressLog, events, extBusy, dockerVars>>

\* the action's outcome is applied to the goal
ReportResult(p, g) ==
    /\ pc[p][g] \in {"returned", "threw"}
    /\ goalState' = [goalState EXCEPT ![p][g] = NextGoalState(p, g)]
    /\ pc' = [pc EXCEPT ![p][g] = "idle"]
    /\ UNCHANGED <<received, snapshot, resolved, port, bindOk,
                   procOutcome, notified, result, escaped,
                   progressLog, events, extBusy, dockerVars>>

-----------------------------------------------------------------------------
(* The build goal: Build with mavenBuilder() and the MvnVersion listener *)

\* withProjectListener(MvnVersion): runs before the builder
VersionListener(p, ok) ==
    /\ goalState[p]["build"] = "in_process"
    /\ pc[p]["build"] = "start"
    /\ events' = [events EXCEPT ![p] = Append(@, "version")]
    /\ IF ok
       THEN /\ pc' = [pc EXCEPT ![p]["build"] = "build"]
            /\ UNCHANGED escaped
       ELSE /\ pc' = [pc EXCEPT ![p]["build"] = "threw"]
            /\ escaped' = [escaped EXCEPT ![p]["build"] = {"mvn version failed"}]
    /\ UNCHANGED <<received, snapshot, resolved, goalState, port, bindOk, procOutcome, notified, result,
                   progressLog, extBusy, dockerVars>>

\* the builder of the build goal
BuildMain(p, ok) ==
    /\ pc[p]["build"] = "build"
    /\ events' = [events EXCEPT ![p] = Append(@, "build")]
    /\ result' = [result EXCEPT ![p]["build"] = {BuildReturn(ok)}]
    /\ pc' = [pc EXCEPT ![p]["build"] = "returned"]
    /\ UNCHANGED <<received, snapshot, resolved, goalState, port, bindOk, procOutcome, notified, escaped,
                   progressLog, extBusy, dockerVars>>

-----------------------------------------------------------------------------
(* The run goal: mavenSpringBootRun, lines 116-150 *)

\* lines 143-148: catch (e) { progressLog.write(...); return { code: 1 } }
Catch(p, msg) ==
    /\ progressLog' = [progressLog EXCEPT ![p] = Append(@, LogEntry(msg))]
    /\ result' = [result EXCEPT ![p]["run"] = {CatchReturn}]
    /\ pc' = [pc EXCEPT ![p]["run"] = "returned"]

\* lines 136-141: return { state: success, externalUrls: [...] }
ReturnSuccess(p) ==
    /\ result' = [result EXCEPT ![p]["run"] = {SuccessReturn(The(port[p]))}]
    /\ pc' = [pc EXCEPT ![p]["run"] = "returned"]
    /\ UNCHANGED progressLog

\* variant: the send placed outside the try and its rejection swallowed
SendRejectedIgnored(p, msg) == ReturnSuccess(p)

\* lines 128-134: await gi.addressChannels(...) rejects, inside the try
SendRejected(p, msg) == Catch(p, msg)

\* line 120: the action is invoked and awaits scanFreePort, outside the try
ScanPort(p) ==
    /\ goalState[p]["run"] = "in_process"
    /\ pc[p]["run"] = "start"
    /\ events' = [events EXCEPT ![p] = Append(@, "run")]
    /\ IF AllocatePort = {}
       THEN /\ escaped' = [escaped EXCEPT ![p]["run"] = {"PortUnavailable"}]
            /\ pc' = [pc EXCEPT ![p]["run"] = "threw"]
            /\ UNCHANGED port
       ELSE /\ port' = [port EXCEPT ![p] = AllocatePort]
            /\ pc' = [pc EXCEPT ![p]["run"] = "exec"]
            /\ UNCHANGED escaped
    /\ UNCHANGED <<received, snapshot, resolved, goalState, bindOk,
                   procOutcome, notified, result, progressLog,
                   extBusy, dockerVars>>

\* lines 124-127: execPromise("mvn", ...) cannot spawn the command
ExecSpawnError(p) ==
    /\ pc[p]["run"] = "exec"
    /\ procOutcome' = [procOutcome EXCEPT ![p] = "spawn_error"]
    /\ Catch(p, ErrorMessageOf("spawn_error"))
    /\ UNCHANGED <<received, snapshot, resolved, goalState, port, bindOk, notified, escaped, events, extBusy,
                   dockerVars>>

\* lines 124-127: the application starts and binds --server.port=${port};
\* it exits nonzero when the port has been taken since the scan
ExecSpawn(p) ==
    /\ pc[p]["run"] = "exec"
    /\ bindOk' = [bindOk EXCEPT ![p] = {The(port[p]) \notin Busy}]
    /\ IF The(port[p]) \notin Busy
       THEN /\ pc' = [pc EXCEPT ![p]["run"] = "running"]
            /\ UNCHANGED <<procOutcome, progressLog, result>>
       ELSE /\ procOutcome' = [procOutcome EXCEPT ![p] = "nonzero"]
            /\ Catch(p, ErrorMessageOf("nonzero"))
    /\ UNCHANGED <<received, snapshot, resolved, goalState, port, notified, escaped, events, extBusy, dockerVars>>

\* lines 124-128: the process exits; on code 0 addressChannels is called
ProcExit(p, code) ==
    /\ pc[p]["run"] = "running"
    /\ IF code = 0
       THEN /\ procOutcome' = [procOutcome EXCEPT ![p] = "zero"]
            /\ pc' = [pc EXCEPT ![p]["run"] = "notify"]
            /\ UNCHANGED <<progressLog, result>>
       ELSE /\ procOutcome' = [procOutcome EXCEPT ![p] = "nonzero"]
            /\ Catch(p, ErrorMessageOf("nonzero"))
    /\ UNCHANGED <<received, snapshot, resolved, goalState, port, bindOk, notified, escaped, events, extBusy, dockerVars>>

\* lines 128-141: the notification is delivered and the action returns
NotifySent(p) ==
    /\ pc[p]["run"] = "notify"
    /\ notified' = [notified EXCEPT ![p] = @ + 1]
    /\ ReturnSuccess(p)
    /\ UNCHANGED <<received, snapshot, resolved, goalState, port, bindOk, procOutcome, escaped, events, extBusy,
                   dockerVars>>

\* lines 128-148: the notification cannot be delivered
NotifyFailed(p) ==
    /\ pc[p]["run"] = "notify"
    /\ SendRejected(p, "message send failed")
    /\ UNCHANGED <<received, snapshot, resolved, goalState, port, bindOk, procOutcome, notified, escaped, events,
                   extBusy, dockerVars>>

-----------------------------------------------------------------------------
(* Processes outside the SDM binding and releasing ports of the range *)

Cand == PortLow..(PortLow + NumCand - 1)

EnvBind(q) ==
    /\ q \notin Busy
    /\ extBusy' = extBusy \cup {q}
    /\ UNCHANGED <<received, snapshot, resolved, goalState, pc, port,
                   bindOk, procOutcome, notified, result, escaped, progressLog, events, dockerVars>>

EnvRelease(q) ==
    /\ q \in extBusy
    /\ extBusy' = extBusy \ {q}
    /\ UNCHANGED <<received, snapshot, resolved, goalState, pc, port,
                   bindOk, procOutcome, notified, result, escaped, progressLog, events, dockerVars>>

Next ==
    \/ \E p \in Pushes, snap \in Snapshots : Receive(p, snap)
    \/ \E p \in Pushes, i \in RuleIdx : Schedule(p, i)
    \/ \E p \in Pushes, g \in Goals : StartGoal(p, g)
    \/ \E p \in Pushes, g \in Goals : ReportResult(p, g)
    \/ \E p \in Pushes, ok \in BOOLEAN : VersionListener(p, ok)
    \/ \E p \in Pushes, ok \in BOOLEAN : BuildMain(p, ok)
    \/ \E p \in Pushes : ScanPort(p)
    \/ \E p \in Pushes : ExecSpawnError(p)
    \/ \E p \in Pushes : ExecSpawn(p)
    \/ \E p \in Pushes, code \in {0, 1} : ProcExit(p, code)
    \/ \E p \in Pushes : NotifySent(p)
    \/ \E p \in Pushes : NotifyFailed(p)
    \/ \E q \in Cand : EnvBind(q)
    \/ \E q \in Cand : EnvRelease(q)

Spec == Init /\ [][Next]_vars

-----------------------------------------------------------------------------
(* readDockerHost, lines 175-181.  A value of DOCKER_HOST is a sequence of  *)
(* tokens; new URL(value) is parsed as the URL standard parses a value     *)
(* without a base URL and with a scheme that is not special.               *)

AlphaTok == {"tcp"}
HostTok == {"1.2.3.4"}
DigitTok == {"2376"}
WordTok == AlphaTok \cup HostTok \cup DigitTok
Tokens == WordTok \cup {":", "/", "@"}

ExampleValue == <<"tcp", ":", "/", "/", "1.2.3.4", ":", "2376">>

RECURSIVE SeqsUpTo(_)
SeqsUpTo(n) ==
    IF n = 0 THEN {<<>>}
    ELSE LET shorter == SeqsUpTo(n - 1)
         IN shorter \cup {Append(v, t) : v \in {w \in shorter : Len(w) = n - 1},
                                          t \in Tokens}

DockerHostValues == SeqsUpTo(MaxLen) \cup {ExampleValue}

Positions(v, t) == {i \in 1..Len(v) : v[i] = t}

\* index of the ":" that ends the scheme, 0 when the value has no scheme
SchemeEnd(v) ==
    IF Len(v) = 0 \/ v[1] \notin AlphaTok \/ Positions(v, ":") = {} THEN 0
    ELSE LET c == MinOf(Positions(v, ":"))
         IN IF \A i \in 1..(c - 1) : v[i] \in WordTok THEN c ELSE 0

\* the authority of what follows the scheme: the tokens between "//" and the
\* next "/"; present only when the rest starts with "//"
HasAuthority(rest) == Len(rest) >= 2 /\ rest[1] = "/" /\ rest[2] = "/"

Authority(rest) ==
    LET after == SubSeq(rest, 3, Len(rest))
        slashes == Positions(after, "/")
    IN IF slashes = {} THEN after ELSE SubSeq(after, 1, MinOf(slashes) - 1)

MaxOf(S) == CHOOSE x \in S : \A y \in S : x >= y

\* host and port follow the last "@" of the authority
HostPort(auth) ==
    IF Positions(auth, "@") = {} THEN auth
    ELSE SubSeq(auth, MaxOf(Positions(auth, "@")) + 1, Len(auth))

RECURSIVE PortValue(_)
\* the decimal value of a run of digit tokens, capped above 65535
PortValue(digits) ==
    IF Len(digits) = 0 THEN 0
    ELSE LET hi == PortValue(SubSeq(digits, 1, Len(digits) - 1))
         IN IF hi * 10000 + 2376 > 65535 THEN 65536 ELSE hi * 10000 + 2376

InvalidURL == [ok |-> FALSE, hostname |-> <<>>, host |-> <<>>]

\* new URL(value): ok, hostname and host (hostname with ":port")
ParseURL(v) ==
    IF SchemeEnd(v) = 0 THEN InvalidURL
    ELSE LET rest == SubSeq(v, SchemeEnd(v) + 1, Len(v))
         IN IF ~HasAuthority(rest)
            THEN [ok |-> TRUE, hostname |-> <<>>, host |-> <<>>]
            ELSE LET auth == Authority(rest)
                     hp == HostPort(auth)
                     colons == Positions(hp, ":")
                     name == IF colons = {} THEN hp
                             ELSE SubSeq(hp, 1, MinOf(colons) - 1)
                     prt == IF colons = {} THEN <<>>
                            ELSE SubSeq(hp, MinOf(colons) + 1, Len(hp))
                 IN IF \/ (Positions(auth, "@") # {} /\ hp = <<>>)
                       \/ (colons # {} /\ name = <<>>)
                       \/ \E i \in 1..Len(prt) : prt[i] \notin DigitTok
                       \/ PortValue(prt) > 65535
                    THEN InvalidURL
                    ELSE [ok |-> TRUE, hostname |-> name,
                          host |-> IF prt = <<>> THEN name
                                   ELSE name \o <<":">> \o prt]

\* variant: lines 176-180 with `.host` in place of `.hostname`
readDockerHostUsingHost(env) ==
    IF env = {} \/ The(env) = <<>>
    THEN [kind |-> "error", message |-> NotSetMessage, value |-> <<>>]
    ELSE IF ~ParseURL(The(env)).ok
    THEN [kind |-> "error", message |-> "Invalid URL", value |-> <<>>]
    ELSE [kind |-> "ok", message |-> "", value |-> ParseURL(The(env)).host]

\* lines 175-181; env is {} when DOCKER_HOST is unset
readDockerHost(env) ==
    IF env = {} \/ The(env) = <<>>
    THEN [kind |-> "error", message |-> NotSetMessage, value |-> <<>>]
    ELSE IF ~ParseURL(The(env)).ok
    THEN [kind |-> "error", message |-> "Invalid URL", value |-> <<>>]
    ELSE [kind |-> "ok", message |-> "", value |-> ParseURL(The(env)).hostname]

SetDockerHost(v) ==
    /\ dockerEnv = {}
    /\ dockerEnv' = {v}
    /\ dockerResult' = {}
    /\ UNCHANGED sdmVars

UnsetDockerHost ==
    /\ dockerEnv # {}
    /\ dockerEnv' = {}
    /\ dockerResult' = {}
    /\ UNCHANGED sdmVars

CallReadDockerHost ==
    /\ dockerResult = {}
    /\ dockerResult' = {readDockerHost(dockerEnv)}
    /\ UNCHANGED <<sdmVars, dockerEnv>>

NextDocker ==
    \/ \E v \in DockerHostValues : SetDockerHost(v)
    \/ UnsetDockerHost
    \/ CallReadDockerHost

SpecDocker == Init /\ [][NextDocker]_vars

-----------------------------------------------------------------------------
(* Properties *)

HasPom(p) == received[p] /\ hasFile(MarkerFile, snapshot[p])
LacksPom(p) == received[p] /\ ~hasFile(MarkerFile, snapshot[p])

IsPrefix(a, b) == Len(a) <= Len(b) /\ SubSeq(b, 1, Len(a)) = a

Invoked(p, e) == \E i \in 1..Len(events[p]) : events[p][i] = e

RunReturned(p) == pc[p]["run"] \in {"returned", "idle"} /\ Invoked(p, "run")

Logged(p, msg) ==
    \E i \in 1..Len(progressLog[p]) : progressLog[p][i] = LogEntry(msg)

\* C1: for a push with pom.xml the version listener, the builder and the run
\* action are invoked in that order; the run goal exists only once the build
\* goal succeeded; after a failed build the run action is never invoked and
\* the run goal is neither scheduled nor marked failed.
C1_BuildBeforeRun ==
    \A p \in Pushes : HasPom(p) =>
        /\ IsPrefix(events[p], <<"version", "build", "run">>)
        /\ goalState[p]["run"] # "none" => goalState[p]["build"] = "success"
        /\ goalState[p]["build"] = "failure" =>
              /\ ~Invoked(p, "run")
              /\ goalState[p]["run"] = "none"

C1_Witness ==
    \E p, q \in Pushes :
        /\ HasPom(p) /\ events[p] = <<"version", "build", "run">>
        /\ HasPom(q) /\ goalState[q]["build"] = "failure"

\* C2: a push without pom.xml resolves to the empty locked goal set of rule
\* no_goals; no goal of it is ever scheduled or executed and it stays locked.
C2_NoPomLocked ==
    \A p \in Pushes : LacksPom(p) =>
        /\ resolved[p] = [rules |-> <<"no_goals">>, locked |-> TRUE]
        /\ GoalSetOf("no_goals") = {}
        /\ \A g \in Goals : goalState[p][g] = "none" /\ pc[p][g] = "idle"
        /\ events[p] = <<>>

C2_Witness ==
    \E p, q \in Pushes :
        /\ LacksPom(p) /\ snapshot[p] # {}
        /\ HasPom(q) /\ goalState[q]["run"] = "success"

\* C3: when the process exits nonzero or cannot be spawned the run action
\* returns {code: 1}, which is reported as failure, the progress log holds
\* the error's message, and the action does not reject.
C3_ProcessFailureCaught ==
    \A p \in Pushes : procOutcome[p] \in {"spawn_error", "nonzero"} =>
        /\ RunReturned(p)
        /\ result[p]["run"] = {[state |-> {}, code |-> {1}, externalUrls |-> <<>>]}
        /\ escaped[p]["run"] = {}
        /\ Logged(p, ErrorMessageOf(procOutcome[p]))
        /\ GoalStateOf(result[p]["run"], escaped[p]["run"]) = "failure"
        /\ pc[p]["run"] = "idle" => goalState[p]["run"] = "failure"

C3_Witness ==
    \E p, q \in Pushes :
        /\ procOutcome[p] = "spawn_error" /\ goalState[p]["run"] = "failure"
        /\ procOutcome[q] = "nonzero" /\ goalState[q]["run"] = "failure"

\* C4: whenever the process exited with code 0 the run action returns state
\* success with exactly one external URL, http://localhost:<allocated port>.
C4_ExitZeroReturnsSuccess ==
    \A p \in Pushes : (procOutcome[p] = "zero" /\ RunReturned(p)) =>
        /\ result[p]["run"] # {}
        /\ The(result[p]["run"]).state = {"success"}
        /\ Len(The(result[p]["run"]).externalUrls) = 1
        /\ The(result[p]["run"]).externalUrls[1].url = appUrl(The(port[p]))

\* C5: when no port of the range is bindable the failure is caught inside
\* the run action and returned as {code: 1} with a progress log entry; the
\* action never rejects.
C5_PortUnavailableCaught ==
    \A p \in Pushes : (Invoked(p, "run") /\ port[p] = {}) =>
        /\ escaped[p]["run"] = {}
        /\ result[p]["run"] = {CatchReturn}
        /\ progressLog[p] # <<>>

GoalSteps ==
    {<<"none", "requested">>, <<"requested", "in_process">>,
     <<"in_process", "success">>, <<"in_process", "failure">>}

\* C7: a goal moves none -> requested -> in_process -> success or failure
\* only; its action is invoked only once it is in_process, and a goal in
\* success or failure never changes state again.
C7_GoalStateMachine ==
    /\ [](\A p \in Pushes :
            /\ Invoked(p, "version") =>
                  goalState[p]["build"] \in {"in_process", "success", "failure"}
            /\ Invoked(p, "run") =>
                  goalState[p]["run"] \in {"in_process", "success", "failure"}
            /\ \A g \in Goals :
                  pc[p][g] # "idle" => goalState[p][g] = "in_process")
    /\ [][\A p \in Pushes, g \in Goals :
            goalState'[p][g] # goalState[p][g] =>
               <<goalState[p][g], goalState'[p][g]>> \in GoalSteps]_vars

C7_Witness ==
    \E p \in Pushes :
        /\ goalState[p]["build"] = "success"
        /\ goalState[p]["run"] = "failure"
        /\ pc[p]["run"] = "idle"

\* C8: within one push at most one goal action is in progress at any time,
\* also while the action of another push is suspended.
C8_OneGoalPerPush ==
    \A p \in Pushes :
        /\ Cardinality(InProcess(p)) <= 1
        /\ Cardinality({g \in Goals : pc[p][g] # "idle"}) <= 1

C8_Witness ==
    \E p, q \in Pushes :
        /\ p # q
        /\ pc[p]["run"] = "running"
        /\ pc[q]["build"] = "build"

IsSubSeq(a, b) ==
    \E i \in 1..(Len(b) + 1) :
        i + Len(a) - 1 <= Len(b) /\ SubSeq(b, i, i + Len(a) - 1) = a

\* C9: readDockerHost raises the "not set" error when DOCKER_HOST is unset
\* or empty; otherwise it raises the URL parser's error or returns the host
\* name alone, a part of the value holding no scheme, credentials or port;
\* tcp://1.2.3.4:2376 gives 1.2.3.4.
C9_ReadDockerHost ==
    dockerResult # {} =>
        LET r == The(dockerResult)
        IN IF dockerEnv = {} \/ The(dockerEnv) = <<>>
           THEN r.kind = "error" /\ r.message = NotSetMessage
           ELSE LET v == The(dockerEnv)
                IN /\ r.kind = "error" => r.message = "Invalid URL"
                   /\ r.kind = "ok" =>
                         /\ \A i \in 1..Len(r.value) : r.value[i] \in WordTok
                         /\ IsSubSeq(r.value, v)
                         /\ v[1] \in AlphaTok
                         /\ Positions(v, ":") # {}
                   /\ (v[1] \notin AlphaTok \/ Positions(v, ":") = {})
                         => r.kind = "error"
                   /\ v = ExampleValue => (r.kind = "ok" /\ r.value = <<"1.2.3.4">>)
                   /\ v = <<"1.2.3.4", ":", "2376">> => r.kind = "error"

C9_Witness ==
    /\ dockerEnv = {ExampleValue}
    /\ dockerResult = {[kind |-> "ok", message |-> "", value |-> <<"1.2.3.4">>]}

\* C10: the notification is sent at most once and only after the process
\* exited with code 0; success is returned only after exit 0 and a completed
\* send; a failed send after exit 0 gives {code: 1} and a
\* 'Container run command failed' log entry.
C10_NotifyOnlyAfterExitZero ==
    \A p \in Pushes :
        /\ notified[p] <= 1
        /\ notified[p] = 1 => procOutcome[p] = "zero"
        /\ (result[p]["run"] # {} /\ The(result[p]["run"]).state = {"success"})
              => (procOutcome[p] = "zero" /\ notified[p] = 1)
        /\ (procOutcome[p] = "zero" /\ RunReturned(p) /\ notified[p] = 0) =>
              /\ result[p]["run"] = {CatchReturn}
              /\ \E i \in 1..Len(progressLog[p]) :
                    progressLog[p][i].prefix = FailPrefix

C10_Witness ==
    \E p \in Pushes :
        /\ procOutcome[p] = "zero" /\ notified[p] = 0
        /\ result[p]["run"] = {CatchReturn}
        /\ goalState[p]["run"] = "failure"

====
